---- MODULE Spec2Model ----
(***************************************************************************)
(* A model of the GetDroned relay node (src/src/get_droned.rs): one drone, *)
(* its run loop, its command handler, its packet router and its flood      *)
(* engine.  The neighbours, the controller and the senders of the two      *)
(* inbound channels are the environment.                                   *)
(*                                                                         *)
(* Node ids are small naturals.  The drop rate is held in percent (0.0 is  *)
(* 0, 1.0 is 100) and the draw of rand::random::<f32>() in [0,1) is a      *)
(* percent value in 0..99, so that `draw < rate` is the f32 comparison.    *)
(* Indices into hops are 0-based in the source and 1-based in a TLA+       *)
(* sequence: hops[hop_index] of the source is hops[hop_index + 1] here.    *)
(***************************************************************************)
EXTENDS Integers, Sequences, FiniteSets, TLC

VARIABLES
    packet_drop_rate,   \* self.packet_drop_rate, in percent
    packet_senders,     \* self.packet_senders: neighbour id -> is the channel still connected
    is_crashed,         \* self.is_crashed
    received_floods,    \* self.received_floods: set of <<initiator_id, flood_id>>
    cmdQ,               \* the commands waiting in self.command_receiver
    pktQ,               \* the packets waiting in self.receiver
    cmd_connected,      \* the controller still holds the sender of the command channel
    pkt_connected,      \* some sender of the packet channel is still alive
    pc,                 \* "running" | "finished" (run returned) | "panicked"
    last,               \* what the latest iteration of the run loop received
    out                 \* what that iteration placed on channels, in program order

vars == << packet_drop_rate, packet_senders, is_crashed, received_floods,
           cmdQ, pktQ, cmd_connected, pkt_connected, pc, last, out >>

node_vars == << packet_drop_rate, packet_senders, is_crashed, received_floods >>

-----------------------------------------------------------------------------
(* Bounds of the model.                                                    *)

MaxNode == 3        \* node ids are 1..MaxNode
MaxHops == 3        \* longest hop sequence of an inbound packet
MaxFlood == 1       \* flood ids are 1..MaxFlood
MaxTrace == 1       \* longest path trace of an inbound flood request
MaxQueue == 2       \* capacity of the two inbound queues in the run-loop specification

Self == 1           \* self.id

Nodes == 1..MaxNode
Others == Nodes \ {Self}

SeqsUpTo(S, n) == UNION {[1..k -> S] : k \in 0..n}

Reverse(s) == [i \in 1..Len(s) |-> s[Len(s) + 1 - i]]

\* The orders in which a HashMap with key set S can be iterated.
Orders(S) == {o \in [1..Cardinality(S) -> S] : \A i, j \in 1..Cardinality(S) : o[i] = o[j] => i = j}

Rates == {0, 50, 100}
\* SetPacketDropRate carries any f32: a rate above 1.0 is among those sent.
CommandRates == Rates \cup {150}
Draws == {0, 50, 99}
NoDraw == 0 - 1

-----------------------------------------------------------------------------
(* Packets, commands, outputs.                                             *)

NoNack == [t |-> "None", id |-> 0]
Dropped == [t |-> "Dropped", id |-> 0]
DestinationIsDrone == [t |-> "DestinationIsDrone", id |-> 0]
ErrorInRouting(n) == [t |-> "ErrorInRouting", id |-> n]
UnexpectedRecipient(n) == [t |-> "UnexpectedRecipient", id |-> n]
ValidOk == [t |-> "Ok", id |-> 0]
IndexPanic == [t |-> "Panic", id |-> 0]

Packet(ty, sid, hops, idx, fi, nt, init, fid, trace) ==
    [pack_type |-> ty, session_id |-> sid, hops |-> hops, hop_index |-> idx,
     fragment_index |-> fi, nack_type |-> nt,
     initiator_id |-> init, flood_id |-> fid, path_trace |-> trace]

NoPacket == Packet("None", 0, << >>, 0, 0, NoNack, 0, 0, << >>)

Headers == {h \in [hops : SeqsUpTo(Nodes, MaxHops), hop_index : 0..MaxHops] :
                h.hop_index <= Len(h.hops)}

Fragments == {Packet("MsgFragment", 1, h.hops, h.hop_index, 1, NoNack, 0, 0, << >>) : h \in Headers}
Acks == {Packet("Ack", 1, h.hops, h.hop_index, 1, NoNack, 0, 0, << >>) : h \in Headers}
Nacks == {Packet("Nack", 1, h.hops, h.hop_index, 1, Dropped, 0, 0, << >>) : h \in Headers}
FloodResponses ==
    {Packet("FloodResponse", 1, h.hops, h.hop_index, 0, NoNack, 0, 1, << >>) : h \in Headers}

TraceEntries == {<<n, ty>> : n \in Nodes, ty \in {"Client", "Drone"}}
FloodRequests ==
    {Packet("FloodRequest", 1, << >>, 0, 0, NoNack, i, f, tr) :
        i \in Others, f \in 1..MaxFlood, tr \in SeqsUpTo(TraceEntries, MaxTrace)}

Routed == Fragments \cup Acks \cup Nacks \cup FloodResponses
Packets == Routed \cup FloodRequests

Command(c, id, conn, pdr) == [cmd |-> c, id |-> id, conn |-> conn, pdr |-> pdr]
NoCommand == Command("None", 0, FALSE, 0)
Commands ==
    {Command("AddSender", n, b, 0) : n \in Others, b \in BOOLEAN}
    \cup {Command("RemoveSender", n, FALSE, 0) : n \in Others}
    \cup {Command("SetPacketDropRate", 0, FALSE, r) : r \in CommandRates}
    \cup {Command("Crash", 0, FALSE, 0)}

\* One output of the node: a packet placed on the channel of neighbour `to`
\* (kind "Send"), or a DroneEvent handed to send_event (to = 0).
Out(kind, to, p) == [kind |-> kind, to |-> to, pkt |-> p]

\* The record of one iteration of the run loop: what it received (kind, cmd,
\* pkt), how many commands and packets were waiting when select_biased! chose
\* (pending, waiting), the random draw, whether the flood key was in the dedup
\* set before, and the parity of the failed receives in a row (spin).
Idle == [kind |-> "none", pkt |-> NoPacket, cmd |-> NoCommand, draw |-> NoDraw, seen |-> FALSE,
         pending |-> 0, waiting |-> 0, spin |-> 0]

-----------------------------------------------------------------------------
(* The routing header and the packet constructors the node uses.           *)

\* routing_header.next_hop(): hops.get(hop_index + 1)
has_next_hop(p) == p.hop_index + 2 <= Len(p.hops)
next_hop(p) == p.hops[p.hop_index + 2]

\* packet.get_fragment_index()
get_fragment_index(p) ==
    IF p.pack_type \in {"MsgFragment", "Ack", "Nack"} THEN p.fragment_index ELSE 0

\* Packet::new_nack(routing_header.get_reversed(), session_id, nack), the header
\* being sub_route(..n) of the original one: its first n hops, reversed, the
\* hop index back at the start of the route.
new_nack(hops, sid, fi, nack_type) ==
    Packet("Nack", sid, hops, 0, fi, nack_type, 0, 0, << >>)

\* flood_request.increment(id, node_type)
increment(p, id, node_type) == [p EXCEPT !.path_trace = Append(@, <<id, node_type>>)]

\* flood_request.generate_response(session_id): the route is the path trace
\* reversed, ending at the initiator, the hop index at the start of the route.
generate_response(fr, sid) ==
    LET ids == [i \in 1..Len(fr.path_trace) |-> fr.path_trace[i][1]]
        rev == Reverse(ids)
        route == IF rev # << >> /\ rev[Len(rev)] # fr.initiator_id
                 THEN Append(rev, fr.initiator_id) ELSE rev
    IN Packet("FloodResponse", sid, route, 0, 0, NoNack, 0, fr.flood_id, fr.path_trace)

-----------------------------------------------------------------------------
(* The packet router.                                                      *)

\* Mutant of nack_hop_index: the index of the first known hop itself.
nack_hop_index_at_hop(packet, nack_type) ==
    LET known == {i \in 1..Len(packet.hops) : packet.hops[i] \in DOMAIN packet_senders}
    IN IF nack_type.t = "UnexpectedRecipient" /\ known # {}
       THEN (CHOOSE i \in known : \A j \in known : i <= j) - 1
       ELSE packet.hop_index

\* The hop index send_nack works with: for UnexpectedRecipient, one past the
\* first hop (from the start of the path) that is a key of packet_senders.
nack_hop_index(packet, nack_type) ==
    LET known == {i \in 1..Len(packet.hops) : packet.hops[i] \in DOMAIN packet_senders}
    IN IF nack_type.t = "UnexpectedRecipient" /\ known # {}
       THEN CHOOSE i \in known : \A j \in known : i <= j
       ELSE packet.hop_index

RECURSIVE send_packet(_), send_nack(_, _)

\* send_packet sending the packet with the hop index it came with.
send_packet_no_advance(p) ==
    IF has_next_hop(p)
    THEN IF next_hop(p) \in DOMAIN packet_senders
         THEN IF packet_senders[next_hop(p)]
              THEN << Out("Send", next_hop(p), p), Out("PacketSent", 0, p) >>
              ELSE IF p.pack_type \in {"FloodRequest", "MsgFragment"}
                   THEN send_nack(p, ErrorInRouting(Self))
                   ELSE << Out("ControllerShortcut", 0, p) >>
         ELSE << >>
    ELSE << Out("ControllerShortcut", 0, p) >>

\* send_packet answering a failed send from the packet it already advanced.
send_packet_post_advance(p) ==
    IF has_next_hop(p)
    THEN LET q == [p EXCEPT !.hop_index = @ + 1]
         IN IF next_hop(p) \in DOMAIN packet_senders
            THEN IF packet_senders[next_hop(p)]
                 THEN << Out("Send", next_hop(p), q), Out("PacketSent", 0, q) >>
                 ELSE IF q.pack_type \in {"FloodRequest", "MsgFragment"}
                      THEN send_nack(q, ErrorInRouting(Self))
                      ELSE << Out("ControllerShortcut", 0, q) >>
            ELSE << >>
    ELSE << Out("ControllerShortcut", 0, p) >>

\* The outputs of send_packet(p), in program order.  A sender whose channel
\* is disconnected makes sender.send fail.
send_packet(p) ==
    IF has_next_hop(p)
    THEN LET q == [p EXCEPT !.hop_index = @ + 1]
         IN IF next_hop(p) \in DOMAIN packet_senders
            THEN IF packet_senders[next_hop(p)]
                 THEN << Out("Send", next_hop(p), q), Out("PacketSent", 0, q) >>
                 ELSE IF q.pack_type \in {"FloodRequest", "MsgFragment"}
                      THEN send_nack(p, ErrorInRouting(Self))
                      ELSE << Out("ControllerShortcut", 0, q) >>
            ELSE << >>
    ELSE << Out("ControllerShortcut", 0, p) >>

\* sub_route(..hop_index + 1) is None when the range ends past the hops.
send_nack(packet, nack_type) ==
    LET n == nack_hop_index(packet, nack_type) + 1
    IN IF n <= Len(packet.hops)
       THEN send_packet(new_nack(Reverse(SubSeq(packet.hops, 1, n)), packet.session_id,
                                 get_fragment_index(packet), nack_type))
       ELSE << >>

\* The loop of send_flood_request leaving at the first send that fails.
RECURSIVE flood_copies_until_failure(_, _, _)
flood_copies_until_failure(packet, received_from, order) ==
    IF order = << >> THEN << >>
    ELSE LET n == Head(order)
         IN IF n = received_from
            THEN flood_copies_until_failure(packet, received_from, Tail(order))
            ELSE IF packet_senders[n]
                 THEN << Out("Send", n, packet), Out("PacketSent", 0, packet) >>
                      \o flood_copies_until_failure(packet, received_from, Tail(order))
                 ELSE << >>

\* The copies send_flood_request sends, the neighbours taken in the order `order`.
RECURSIVE flood_copies(_, _, _)
flood_copies(packet, received_from, order) ==
    IF order = << >> THEN << >>
    ELSE LET n == Head(order)
             this == IF n # received_from /\ packet_senders[n]
                     THEN << Out("Send", n, packet), Out("PacketSent", 0, packet) >>
                     ELSE << >>
         IN this \o flood_copies(packet, received_from, Tail(order))

send_flood_request(packet, received_from, order) == flood_copies(packet, received_from, order)

\* validate_packet looking at the end of the path before the current hop.
validate_packet_end_first(packet) ==
    IF packet.hop_index >= Len(packet.hops) THEN IndexPanic
    ELSE IF packet.hop_index + 1 = Len(packet.hops) THEN DestinationIsDrone
    ELSE IF packet.hops[packet.hop_index + 1] # Self THEN UnexpectedRecipient(Self)
    ELSE IF packet.hops[packet.hop_index + 2] \notin DOMAIN packet_senders
         THEN ErrorInRouting(packet.hops[packet.hop_index + 2])
    ELSE ValidOk

validate_packet(packet) ==
    IF packet.hop_index >= Len(packet.hops) THEN IndexPanic
    ELSE IF packet.hops[packet.hop_index + 1] # Self THEN UnexpectedRecipient(Self)
    ELSE IF packet.hop_index + 1 = Len(packet.hops) THEN DestinationIsDrone
    ELSE IF packet.hops[packet.hop_index + 2] \notin DOMAIN packet_senders
         THEN ErrorInRouting(packet.hops[packet.hop_index + 2])
    ELSE ValidOk

\* process_fragment calls rand::random on line 297: the node is not crashed
\* and the guard packet_drop_rate > 0.0 before the && holds.
draws_random == ~is_crashed /\ packet_drop_rate > 0

\* Mutants of process_fragment: the crash flag is not consulted; the drop
\* comparison is reversed; the guard on the drop rate is inverted.
process_fragment_ignores_crash(packet, draw) ==
    IF packet_drop_rate > 0 /\ draw < packet_drop_rate
    THEN send_nack(packet, Dropped) \o << Out("PacketDropped", 0, packet) >>
    ELSE send_packet(packet)
process_fragment_reversed(packet, draw) ==
    IF is_crashed THEN send_nack(packet, ErrorInRouting(Self))
    ELSE IF packet_drop_rate > 0 /\ draw > packet_drop_rate
         THEN send_nack(packet, Dropped) \o << Out("PacketDropped", 0, packet) >>
    ELSE send_packet(packet)
process_fragment_guard_inverted(packet, draw) ==
    IF is_crashed THEN send_nack(packet, ErrorInRouting(Self))
    ELSE IF ~(packet_drop_rate > 0) \/ draw < packet_drop_rate
         THEN send_nack(packet, Dropped) \o << Out("PacketDropped", 0, packet) >>
    ELSE send_packet(packet)

process_fragment(packet, draw) ==
    IF is_crashed THEN send_nack(packet, ErrorInRouting(Self))
    ELSE IF packet_drop_rate > 0 /\ draw < packet_drop_rate
         THEN send_nack(packet, Dropped) \o << Out("PacketDropped", 0, packet) >>
    ELSE send_packet(packet)

-----------------------------------------------------------------------------
(* The flood engine.                                                       *)

flood_key(fr) == << fr.initiator_id, fr.flood_id >>

flood_sender_id(fr) ==
    IF fr.path_trace # << >> THEN fr.path_trace[Len(fr.path_trace)][1] ELSE fr.initiator_id

\* Mutants of flood_answers: the dedup set is not consulted; the size of the
\* neighbour table is not consulted.
flood_answers_ignores_seen(fr) == Cardinality(DOMAIN packet_senders) = 1
flood_answers_ignores_single(fr) == flood_key(fr) \in received_floods

\* Does process_flood_request answer (TRUE) or broadcast (FALSE)?
flood_answers(fr) ==
    flood_key(fr) \in received_floods \/ Cardinality(DOMAIN packet_senders) = 1

\* The result of a handler: its outputs, the dedup set it leaves, did it panic.
Result(o, floods, panic) == [out |-> o, floods |-> floods, panic |-> panic]

\* process_flood_request recording the key before it chooses its branch.
process_flood_request_records_first(packet, order) ==
    LET flood_request == increment(packet, Self, "Drone")
    IN IF flood_answers(flood_request)
       THEN Result(send_packet(generate_response(flood_request, packet.session_id)),
                   received_floods \cup {flood_key(flood_request)}, FALSE)
       ELSE Result(send_flood_request(flood_request, flood_sender_id(packet), order),
                   received_floods \cup {flood_key(flood_request)}, FALSE)

process_flood_request(packet, order) ==
    LET flood_request == increment(packet, Self, "Drone")
    IN IF flood_answers(flood_request)
       THEN Result(send_packet(generate_response(flood_request, packet.session_id)),
                   received_floods, FALSE)
       ELSE Result(send_flood_request(flood_request, flood_sender_id(packet), order),
                   received_floods \cup {flood_key(flood_request)}, FALSE)

\* Mutant of process_packet: Ack, Nack and FloodResponse take the fragment's arm.
process_packet_one_arm(packet, draw, order) ==
    IF packet.pack_type = "FloodRequest" THEN process_flood_request(packet, order)
    ELSE LET v == validate_packet(packet)
         IN IF v = IndexPanic THEN Result(<< >>, received_floods, TRUE)
            ELSE IF v = ValidOk
                 THEN Result(process_fragment(packet, draw), received_floods, FALSE)
                 ELSE Result(send_nack(packet, v), received_floods, FALSE)

process_packet(packet, draw, order) ==
    IF packet.pack_type = "FloodRequest" THEN process_flood_request(packet, order)
    ELSE LET v == validate_packet(packet)
         IN IF v = IndexPanic THEN Result(<< >>, received_floods, TRUE)
            ELSE IF packet.pack_type = "MsgFragment"
                 THEN IF v = ValidOk
                      THEN Result(process_fragment(packet, draw), received_floods, FALSE)
                      ELSE Result(send_nack(packet, v), received_floods, FALSE)
            ELSE IF v = ValidOk
                 THEN Result(send_packet(packet), received_floods, FALSE)
                 ELSE Result(<< Out("ControllerShortcut", 0, packet) >>, received_floods, FALSE)

-----------------------------------------------------------------------------
(* The command handler.                                                    *)

add_neighbor_sender(id, conn) ==
    [n \in DOMAIN packet_senders \cup {id} |-> IF n = id THEN conn ELSE packet_senders[n]]

remove_neighbor_sender(id) ==
    [n \in DOMAIN packet_senders \ {id} |-> packet_senders[n]]

\* process_command keeping the drop rate it stores within 0.0 ..= 1.0.
process_command_clamped(command) ==
    /\ packet_senders' =
          IF command.cmd = "AddSender" THEN add_neighbor_sender(command.id, command.conn)
          ELSE IF command.cmd = "RemoveSender" THEN remove_neighbor_sender(command.id)
          ELSE packet_senders
    /\ is_crashed' = IF command.cmd = "Crash" THEN TRUE ELSE is_crashed
    /\ packet_drop_rate' =
          IF command.cmd = "SetPacketDropRate"
          THEN (IF command.pdr > 100 THEN 100 ELSE command.pdr)
          ELSE packet_drop_rate
    /\ UNCHANGED received_floods

process_command(command) ==
    /\ packet_senders' =
          IF command.cmd = "AddSender" THEN add_neighbor_sender(command.id, command.conn)
          ELSE IF command.cmd = "RemoveSender" THEN remove_neighbor_sender(command.id)
          ELSE packet_senders
    /\ is_crashed' = IF command.cmd = "Crash" THEN TRUE ELSE is_crashed
    /\ packet_drop_rate' =
          IF command.cmd = "SetPacketDropRate" THEN command.pdr ELSE packet_drop_rate
    /\ UNCHANGED received_floods

-----------------------------------------------------------------------------
(* The environment: the controller, the neighbours, the senders of the     *)
(* packet channel.                                                         *)

\* The controller sends a command.
SendCommand(c, cap) ==
    /\ pc = "running" /\ cmd_connected /\ Len(cmdQ) < cap
    /\ cmdQ' = Append(cmdQ, c)
    /\ UNCHANGED << node_vars, pktQ, cmd_connected, pkt_connected, pc, last, out >>

\* A neighbour (or the controller) puts a packet on the node's packet channel.
Deliver(p, cap) ==
    /\ pc = "running" /\ pkt_connected /\ Len(pktQ) < cap
    /\ pktQ' = Append(pktQ, p)
    /\ UNCHANGED << node_vars, cmdQ, cmd_connected, pkt_connected, pc, last, out >>

\* Every sender of the packet channel is dropped.
ClosePackets ==
    /\ pc = "running" /\ pkt_connected
    /\ pkt_connected' = FALSE
    /\ UNCHANGED << node_vars, cmdQ, pktQ, cmd_connected, pc, last, out >>

\* The controller drops its sender of the command channel.
CloseCommands ==
    /\ pc = "running" /\ cmd_connected
    /\ cmd_connected' = FALSE
    /\ UNCHANGED << node_vars, cmdQ, pktQ, pkt_connected, pc, last, out >>

\* The receivers take what the node has placed on their channels.
Consume ==
    /\ last # Idle
    /\ last' = Idle /\ out' = << >>
    /\ UNCHANGED << node_vars, cmdQ, pktQ, cmd_connected, pkt_connected, pc >>

-----------------------------------------------------------------------------
(* The run loop: one action per outcome of select_biased!.                 *)

\* A recv is ready when its channel holds a message or is disconnected.
command_ready == cmdQ # << >> \/ ~cmd_connected
packet_ready == pktQ # << >> \/ ~pkt_connected

\* Mutant of selects_packet: select! without the bias.
selects_packet_unbiased == packet_ready

\* select_biased! takes the first ready operation in the order written: the
\* packet arm runs only when the command arm is not ready.
selects_command == command_ready
selects_packet == ~command_ready /\ packet_ready

\* recv(self.command_receiver) is ready with a command.
RunCommand ==
    /\ pc = "running" /\ selects_command /\ cmdQ # << >>
    /\ process_command(Head(cmdQ))
    /\ cmdQ' = Tail(cmdQ)
    /\ last' = [Idle EXCEPT !.kind = "command", !.cmd = Head(cmdQ),
                            !.pending = Len(cmdQ), !.waiting = Len(pktQ)]
    /\ out' = << >>
    /\ UNCHANGED << pktQ, cmd_connected, pkt_connected, pc >>

\* recv(self.command_receiver) is ready with Err: the channel is empty and
\* disconnected.  The first arm of select_biased! wins whatever the second holds.
RunCommandErr ==
    /\ pc = "running" /\ selects_command /\ cmdQ = << >>
    /\ last' = [Idle EXCEPT !.kind = "command_err", !.waiting = Len(pktQ), !.spin = 1 - last.spin]
    /\ out' = << >>
    /\ UNCHANGED << node_vars, cmdQ, pktQ, cmd_connected, pkt_connected, pc >>

\* The command channel is not ready and recv(self.receiver) is ready with a packet.
RunPacket ==
    /\ pc = "running" /\ selects_packet /\ pktQ # << >>
    /\ LET packet == Head(pktQ)
           drawn == packet.pack_type = "MsgFragment" /\ validate_packet(packet) = ValidOk
                    /\ draws_random
       IN \E draw \in (IF drawn THEN Draws ELSE {NoDraw}), order \in Orders(DOMAIN packet_senders) :
            LET r == process_packet(packet, draw, order)
            IN /\ received_floods' = r.floods
               /\ out' = r.out
               /\ pc' = IF r.panic THEN "panicked" ELSE "running"
               /\ last' = [Idle EXCEPT !.kind = "packet", !.pkt = packet, !.draw = draw,
                                       !.seen = flood_key(packet) \in received_floods,
                                       !.pending = Len(cmdQ), !.waiting = Len(pktQ)]
    /\ pktQ' = Tail(pktQ)
    /\ UNCHANGED << packet_drop_rate, packet_senders, is_crashed, cmdQ, cmd_connected, pkt_connected >>

\* The command channel is not ready and recv(self.receiver) is ready with Err:
\* the packet channel is empty and disconnected.
RunPacketErr ==
    /\ pc = "running" /\ selects_packet /\ pktQ = << >>
    /\ pc' = IF is_crashed THEN "finished" ELSE "running"
    /\ last' = [Idle EXCEPT !.kind = "packet_err", !.spin = 1 - last.spin]
    /\ out' = << >>
    /\ UNCHANGED << node_vars, cmdQ, pktQ, cmd_connected, pkt_connected >>

-----------------------------------------------------------------------------
(* The node after new(): any neighbour table and drop rate, not crashed,   *)
(* no flood seen, both channels connected and empty.                       *)

Init ==
    /\ packet_drop_rate \in Rates
    /\ packet_senders \in UNION {[S -> BOOLEAN] : S \in SUBSET Others}
    /\ is_crashed = FALSE
    /\ received_floods = {}
    /\ cmdQ = << >> /\ pktQ = << >>
    /\ cmd_connected = TRUE /\ pkt_connected = TRUE
    /\ pc = "running"
    /\ last = Idle /\ out = << >>

\* The handlers: the environment hands the node one input at a time, once the
\* outputs of the previous one have been taken.
Quiet == cmdQ = << >> /\ pktQ = << >> /\ last = Idle

Next ==
    \/ \E c \in Commands : Quiet /\ SendCommand(c, 1)
    \/ \E p \in Packets : Quiet /\ Deliver(p, 1)
    \/ Consume
    \/ RunCommand
    \/ RunPacket

Spec == Init /\ [][Next]_vars

-----------------------------------------------------------------------------
(* The run loop with its queues: commands and packets arrive while others  *)
(* wait, the channels may be closed, and the loop is scheduled fairly.     *)

RunCommands ==
    {Command("Crash", 0, FALSE, 0), Command("AddSender", MaxNode, TRUE, 0),
     Command("RemoveSender", MaxNode, FALSE, 0)}

RunPackets ==
    {p \in Fragments \cup Acks : p.hops = << MaxNode, Self, MaxNode >> /\ p.hop_index = 1}
    \cup {p \in FloodRequests : p.initiator_id = MaxNode /\ p.flood_id = 1 /\ p.path_trace = << >>}

\* Crash is the last command the controller sends to a drone.
ControllerSends(c) ==
    /\ ~is_crashed /\ \A i \in DOMAIN cmdQ : cmdQ[i].cmd # "Crash"
    /\ SendCommand(c, MaxQueue)

RunLoop == RunCommand \/ RunCommandErr \/ RunPacket \/ RunPacketErr

NextRun ==
    \/ \E c \in RunCommands : ControllerSends(c)
    \/ \E p \in RunPackets : Deliver(p, MaxQueue)
    \/ ClosePackets
    \/ CloseCommands
    \/ RunCommand
    \/ RunCommandErr
    \/ RunPacket
    \/ RunPacketErr

SpecRun == Init /\ [][NextRun]_vars /\ WF_vars(RunLoop)

-----------------------------------------------------------------------------
(* What the claims observe.  In a state with last.kind = "packet" the node *)
(* has just handled last.pkt: out holds what it emitted, the neighbour     *)
(* table, the drop rate and the crash flag are those the handler saw, and  *)
(* last.seen tells whether the flood key was in the dedup set before.      *)

Handled(ty) == last.kind = "packet" /\ last.pkt.pack_type = ty
OutIdx == DOMAIN out
SendsOf(ty) == {i \in OutIdx : out[i].kind = "Send" /\ out[i].pkt.pack_type = ty}
EventsOf(ev) == {i \in OutIdx : out[i].kind = ev}
NacksOf(t) == {i \in OutIdx : out[i].pkt.pack_type = "Nack" /\ out[i].pkt.nack_type.t = t}
Connected(n) == n \in DOMAIN packet_senders /\ packet_senders[n]
OwnTrace == Append(last.pkt.path_trace, <<Self, "Drone">>)

\* Every output of the handled flood request carries a FloodResponse for its
\* flood id whose path trace is the received one with (Self, Drone) appended.
AnsweredOnly ==
    \A i \in OutIdx : /\ out[i].pkt.pack_type = "FloodResponse"
                      /\ out[i].pkt.flood_id = last.pkt.flood_id
                      /\ out[i].pkt.path_trace = OwnTrace

\* The handled flood request was broadcast: its key is now in the dedup set and
\* a copy went to every connected neighbour but the sender, and nothing else.
BroadcastDone ==
    /\ flood_key(last.pkt) \in received_floods
    /\ \A i \in OutIdx : out[i].pkt.pack_type = "FloodRequest" /\ out[i].pkt.path_trace = OwnTrace
    /\ \A n \in DOMAIN packet_senders :
          (\E i \in SendsOf("FloodRequest") : out[i].to = n)
              <=> (packet_senders[n] /\ n # flood_sender_id(last.pkt))

(* C1 as amended: a flood request whose key is already in the dedup set (a  *)
(* broadcast was performed for it) is answered: no copy of the request is   *)
(* sent, every output is the FloodResponse, the set is unchanged.  One      *)
(* whose key is not in the set is broadcast and the key recorded, unless    *)
(* the neighbour table holds exactly one entry.  So no key is broadcast     *)
(* twice.                                                                   *)
C1_FloodDedup ==
    Handled("FloodRequest") =>
        /\ last.seen => (SendsOf("FloodRequest") = {} /\ AnsweredOnly
                         /\ flood_key(last.pkt) \in received_floods)
        /\ (~last.seen /\ Cardinality(DOMAIN packet_senders) # 1) => BroadcastDone

C1_Witness ==
    /\ Handled("FloodRequest") /\ last.seen
    /\ Cardinality(DOMAIN packet_senders) = 2
    /\ SendsOf("FloodResponse") # {}

(* C1 as stated: the first delivery of a key is broadcast (which records    *)
(* the key) and every later one is answered, so every flood request handled *)
(* is either answered because its key was recorded, or broadcast.           *)
C1_Original ==
    Handled("FloodRequest") =>
        IF last.seen THEN SendsOf("FloodRequest") = {} /\ AnsweredOnly
        ELSE BroadcastDone

(* C2: a flood request handled while the neighbour table holds exactly one  *)
(* entry is never copied to a neighbour; the node generates the             *)
(* FloodResponse from the path trace with itself appended, for a key seen   *)
(* or not, records nothing, and the response goes to the sender when the    *)
(* sender is that connected neighbour.                                      *)
C2_SingleNeighbor ==
    (Handled("FloodRequest") /\ Cardinality(DOMAIN packet_senders) = 1) =>
        /\ SendsOf("FloodRequest") = {}
        /\ AnsweredOnly
        /\ (flood_key(last.pkt) \in received_floods) <=> last.seen
        /\ Connected(flood_sender_id(last.pkt)) =>
              \E i \in SendsOf("FloodResponse") :
                  /\ out[i].to = flood_sender_id(last.pkt)
                  /\ out[i].pkt.hops[out[i].pkt.hop_index + 1] = out[i].to
                  /\ out[i].pkt.hops[1] = Self

C2_Witness ==
    /\ Handled("FloodRequest") /\ ~last.seen
    /\ Cardinality(DOMAIN packet_senders) = 1
    /\ SendsOf("FloodResponse") # {}

-----------------------------------------------------------------------------
(* The route of the packet just handled, as the claims speak of it.        *)

P == last.pkt
ValidIndex == P.hop_index < Len(P.hops)
AtSelf == ValidIndex /\ P.hops[P.hop_index + 1] = Self
HasNext == P.hop_index + 2 <= Len(P.hops)
NextHop == P.hops[P.hop_index + 2]
PrevHop == P.hops[P.hop_index]
RouteOk == AtSelf /\ HasNext /\ NextHop \in DOMAIN packet_senders
Advanced == [P EXCEPT !.hop_index = @ + 1]
Forwarded == << Out("Send", NextHop, Advanced), Out("PacketSent", 0, Advanced) >>
HandledFragment == Handled("MsgFragment") /\ ValidIndex
HandledPassthrough ==
    last.kind = "packet" /\ P.pack_type \in {"Ack", "Nack", "FloodResponse"} /\ ValidIndex

\* A NACK of type t for P over the first n hops of its path, reversed.
NackOver(n, t) ==
    Packet("Nack", P.session_id, Reverse(SubSeq(P.hops, 1, n)), 0, P.fragment_index, t, 0, 0, << >>)

\* What becomes of a NACK handed to forward: it goes to the second hop of its
\* path when that is a connected neighbour; it ends in a ControllerShortcut
\* event when its path has one hop or the channel is disconnected; it is lost
\* when the second hop is not in the neighbour table.
Returned(nack) ==
    LET to == nack.hops[2]
        sent == [nack EXCEPT !.hop_index = 1]
    IN IF Len(nack.hops) < 2 THEN << Out("ControllerShortcut", 0, nack) >>
       ELSE IF to \notin DOMAIN packet_senders THEN << >>
       ELSE IF packet_senders[to] THEN << Out("Send", to, sent), Out("PacketSent", 0, sent) >>
       ELSE << Out("ControllerShortcut", 0, sent) >>

\* The NACK of type t sent back from the node's own position in the path.
NackBack(t) == Returned(NackOver(P.hop_index + 1, t))

\* The reason route validation gives for a fragment it rejects.
Rejection ==
    IF ~AtSelf THEN "UnexpectedRecipient"
    ELSE IF ~HasNext THEN "DestinationIsDrone" ELSE "ErrorInRouting"

\* The first position of the path (from its start) that holds a key of the
\* neighbour table, 0 when there is none.
KnownHops == {i \in 1..Len(P.hops) : P.hops[i] \in DOMAIN packet_senders}
FirstKnown == IF KnownHops = {} THEN 0 ELSE CHOOSE i \in KnownHops : \A j \in KnownHops : i <= j

(* C3 as amended: on a crashed node no fragment is forwarded and none gets *)
(* a PacketDropped event, whatever the drop rate.  A fragment that passes   *)
(* route validation is answered with the NACK ErrorInRouting(Self) over the *)
(* reverse of the path up to the node's own position.  A fragment that      *)
(* fails route validation is answered with the NACK of the validation's     *)
(* reason: DestinationIsDrone or ErrorInRouting(next hop) over that same    *)
(* path; UnexpectedRecipient(Self) over the reverse of the path truncated   *)
(* after the hop that follows the first hop that is a known neighbour,      *)
(* nothing at all when that neighbour is the last hop, and over the path up *)
(* to the current index when no hop is a known neighbour.  Each NACK is     *)
(* handed to forward: sent to the second hop of its path when that is a     *)
(* connected neighbour, a ControllerShortcut event when its path has one    *)
(* hop or that channel is disconnected, lost when that hop is not in the    *)
(* neighbour table.  Flood requests and Ack, Nack, FloodResponse packets    *)
(* are broadcast, answered and forwarded as on a node that is not crashed.  *)
C3_Crashed ==
    (last.kind = "packet" /\ is_crashed) =>
        /\ HandledFragment =>
              /\ SendsOf("MsgFragment") = {}
              /\ EventsOf("PacketDropped") = {}
              /\ RouteOk => out = NackBack(ErrorInRouting(Self))
              /\ (AtSelf /\ ~HasNext) => out = NackBack(DestinationIsDrone)
              /\ (AtSelf /\ HasNext /\ NextHop \notin DOMAIN packet_senders) =>
                    out = NackBack(ErrorInRouting(NextHop))
              /\ (~AtSelf /\ FirstKnown # 0 /\ FirstKnown < Len(P.hops)) =>
                    out = Returned(NackOver(FirstKnown + 1, UnexpectedRecipient(Self)))
              /\ (~AtSelf /\ FirstKnown # 0 /\ FirstKnown = Len(P.hops)) => out = << >>
              /\ (~AtSelf /\ FirstKnown = 0) => out = NackBack(UnexpectedRecipient(Self))
        /\ Handled("FloodRequest") =>
              /\ (last.seen \/ Cardinality(DOMAIN packet_senders) = 1) => AnsweredOnly
              /\ (~last.seen /\ Cardinality(DOMAIN packet_senders) # 1) => BroadcastDone
        /\ (HandledPassthrough /\ RouteOk /\ Connected(NextHop)) => out = Forwarded
        /\ (HandledPassthrough /\ RouteOk /\ ~Connected(NextHop)) =>
              out = << Out("ControllerShortcut", 0, Advanced) >>
        /\ (HandledPassthrough /\ ~RouteOk) => out = << Out("ControllerShortcut", 0, P) >>

C3_Witness ==
    /\ HandledFragment /\ is_crashed /\ RouteOk /\ Connected(NextHop)
    /\ packet_drop_rate = 0
    /\ P.hop_index > 0 /\ Connected(PrevHop)
    /\ NacksOf("ErrorInRouting") # {}

(* C3 as stated: after Crash every fragment, whatever its routing header,   *)
(* is answered with ErrorInRouting(Self): the node sends no NACK of another *)
(* type.                                                                    *)
C3_Original ==
    (HandledFragment /\ is_crashed) =>
        /\ SendsOf("MsgFragment") = {}
        /\ \A i \in OutIdx : out[i].pkt.pack_type = "Nack" =>
                                out[i].pkt.nack_type = ErrorInRouting(Self)

(* C4 as amended: a fragment whose hop at the current index is not the      *)
(* node is never forwarded and every output carries a NACK                  *)
(* UnexpectedRecipient(Self).  When the first hop of the path that is a     *)
(* known neighbour is not the last hop, the NACK's path is the reverse of   *)
(* the path truncated after the hop that follows that neighbour, and it is  *)
(* sent to that neighbour; when it is the last hop, nothing is emitted;     *)
(* when no hop is a known neighbour the path is truncated at the current    *)
(* index.                                                                   *)
C4_UnexpectedRecipient ==
    (HandledFragment /\ ~AtSelf) =>
        /\ SendsOf("MsgFragment") = {}
        /\ \A i \in OutIdx : /\ out[i].pkt.pack_type = "Nack"
                             /\ out[i].pkt.nack_type = UnexpectedRecipient(Self)
        /\ (FirstKnown # 0 /\ FirstKnown < Len(P.hops)) =>
              /\ out = Returned(NackOver(FirstKnown + 1, UnexpectedRecipient(Self)))
              /\ out # << >>
              /\ packet_senders[P.hops[FirstKnown]] =>
                    \E i \in SendsOf("Nack") : out[i].to = P.hops[FirstKnown]
        /\ (FirstKnown # 0 /\ FirstKnown = Len(P.hops)) => out = << >>
        /\ FirstKnown = 0 => out = NackBack(UnexpectedRecipient(Self))

C4_Witness ==
    /\ HandledFragment /\ ~AtSelf
    /\ FirstKnown = 2 /\ Len(P.hops) = 3
    /\ SendsOf("Nack") # {}

(* C4 as stated, for a fragment with a known neighbour on its path: a NACK  *)
(* UnexpectedRecipient(Self) is emitted whose path is the reverse of the    *)
(* original path truncated at the first hop that is a known neighbour.      *)
C4_Original ==
    (HandledFragment /\ ~AtSelf /\ FirstKnown # 0) =>
        \E i \in OutIdx : out[i].pkt = NackOver(FirstKnown, UnexpectedRecipient(Self))
                          \/ out[i].pkt = [NackOver(FirstKnown, UnexpectedRecipient(Self))
                                              EXCEPT !.hop_index = 1]

(* C5 as amended: a fragment that passes route validation on a node that    *)
(* is not crashed, while the drop rate is 1.0, is never forwarded whatever  *)
(* the draw: the NACK Dropped over the reversed path is handed to forward   *)
(* and then exactly one PacketDropped event carrying the fragment is        *)
(* emitted.                                                                 *)
C5_AlwaysDropped ==
    (HandledFragment /\ packet_drop_rate = 100 /\ RouteOk /\ ~is_crashed) =>
        /\ last.draw \in Draws
        /\ SendsOf("MsgFragment") = {}
        /\ out = NackBack(Dropped) \o << Out("PacketDropped", 0, P) >>

C5_Witness ==
    /\ HandledFragment /\ packet_drop_rate = 100 /\ RouteOk /\ ~is_crashed
    /\ last.draw = 99
    /\ SendsOf("Nack") # {} /\ EventsOf("PacketDropped") # {}

(* C5 as stated: every fragment handled while the drop rate is 1.0 gets a   *)
(* PacketDropped event, is not forwarded, and any NACK for it is Dropped.   *)
C5_Original ==
    (HandledFragment /\ packet_drop_rate = 100) =>
        /\ SendsOf("MsgFragment") = {}
        /\ EventsOf("PacketDropped") # {}
        /\ \A i \in OutIdx : out[i].pkt.pack_type = "Nack" => out[i].pkt.nack_type = Dropped

(* C6 as amended: while the drop rate is 0.0 no fragment is dropped and no  *)
(* random draw is made: no NACK Dropped and no PacketDropped event; a       *)
(* fragment that passes route validation on a node that is not crashed is   *)
(* forwarded to its next hop when that channel is connected.                *)
C6_NeverDropped ==
    (HandledFragment /\ packet_drop_rate = 0) =>
        /\ last.draw = NoDraw
        /\ NacksOf("Dropped") = {}
        /\ EventsOf("PacketDropped") = {}
        /\ (RouteOk /\ ~is_crashed /\ Connected(NextHop)) => out = Forwarded

C6_Witness ==
    /\ HandledFragment /\ packet_drop_rate = 0 /\ RouteOk /\ ~is_crashed
    /\ last.draw = NoDraw
    /\ out = Forwarded

(* C6 as stated: every fragment handled while the drop rate is 0.0 is       *)
(* forwarded to its next hop.                                               *)
C6_Original ==
    (HandledFragment /\ packet_drop_rate = 0) =>
        /\ SendsOf("MsgFragment") # {}
        /\ NacksOf("Dropped") = {} /\ EventsOf("PacketDropped") = {}

(* C7: every fragment handled leaves the node as a forwarded packet, a     *)
(* NACK or an event: none disappears with no forwarded packet, no NACK     *)
(* sent and no event emitted.                                              *)
C7_NoSilentLoss == HandledFragment => out # << >>

(* C10 as amended: an Ack, Nack or FloodResponse that passes route          *)
(* validation is forwarded as it is, the hop index advanced by one, to the  *)
(* next hop when that channel is connected, and otherwise ends in one       *)
(* ControllerShortcut event carrying the advanced packet; one that fails    *)
(* route validation ends in exactly one ControllerShortcut event carrying   *)
(* the packet.  Whatever the drop rate and the crash flag, no NACK is       *)
(* generated and no PacketDropped event is emitted for it.                  *)
C10_Passthrough ==
    HandledPassthrough =>
        /\ (RouteOk /\ Connected(NextHop)) => out = Forwarded
        /\ (RouteOk /\ ~Connected(NextHop)) => out = << Out("ControllerShortcut", 0, Advanced) >>
        /\ ~RouteOk => out = << Out("ControllerShortcut", 0, P) >>
        /\ EventsOf("PacketDropped") = {}
        /\ \A i \in OutIdx : out[i].pkt \in {P, Advanced}

C10_Witness ==
    /\ HandledPassthrough /\ P.pack_type = "Ack"
    /\ is_crashed /\ packet_drop_rate = 100
    /\ RouteOk /\ out = Forwarded

(* C10 as stated: an Ack, Nack or FloodResponse that passes route           *)
(* validation is forwarded to the next hop; one that fails it ends in       *)
(* exactly one ControllerShortcut event.                                    *)
C10_Original ==
    HandledPassthrough =>
        /\ RouteOk => out = Forwarded
        /\ ~RouteOk => out = << Out("ControllerShortcut", 0, P) >>

(* C8: once the node is crashed and its packet channel is closed, the run   *)
(* loop eventually returns.                                                 *)
C8_Terminates == (is_crashed /\ ~pkt_connected) ~> (pc = "finished")

(* C9: a packet is handled only by an iteration of the run loop that found  *)
(* no command waiting: when a command and a packet are both ready the       *)
(* command is processed first.                                              *)
C9_CommandFirst == last.kind = "packet" => last.pending = 0

C9_Witness == last.kind = "command" /\ last.waiting > 0 /\ pktQ # << >>

-----------------------------------------------------------------------------
\* The fragment just handled was handed to forward: it passed route validation
\* on a node that is not crashed and the drop draw did not select it.
FragmentForward ==
    /\ HandledFragment /\ RouteOk /\ ~is_crashed
    /\ ~(packet_drop_rate > 0 /\ last.draw < packet_drop_rate)

\* The outputs that carry a NACK this node built over its own stretch of the
\* path of the fragment just handled.
OwnNacks ==
    {i \in OutIdx : /\ out[i].pkt.pack_type = "Nack"
                    /\ out[i].pkt.hops = Reverse(SubSeq(P.hops, 1, P.hop_index + 1))}

(* C11: the outcomes of forward.  A fragment whose next hop is a neighbour  *)
(* with a failing channel is answered with the NACK ErrorInRouting(self)    *)
(* over the reverse of the path up to the node's own (pre-advance)          *)
(* position; an Ack, Nack or FloodResponse in that case ends in exactly one *)
(* ControllerShortcut event carrying the advanced packet, and no NACK; a    *)
(* NACK the node built itself whose own send fails ends in one              *)
(* ControllerShortcut event too; a NACK with no hop after the node ends in  *)
(* a ControllerShortcut event and nothing is sent; a send that succeeds is  *)
(* followed by a PacketSent event carrying the advanced packet.             *)
C11_SendFailure ==
    /\ FragmentForward =>
          /\ Connected(NextHop) => out = Forwarded
          /\ ~Connected(NextHop) =>
                /\ out = NackBack(ErrorInRouting(Self))
                /\ \A i \in OutIdx : i \in OwnNacks /\ out[i].pkt.nack_type = ErrorInRouting(Self)
    /\ (HandledPassthrough /\ RouteOk) =>
          /\ Connected(NextHop) => out = Forwarded
          /\ ~Connected(NextHop) => out = << Out("ControllerShortcut", 0, Advanced) >>
    /\ (HandledFragment /\ AtSelf /\ ~(RouteOk /\ out = Forwarded)) =>
          /\ P.hop_index = 0 =>
                /\ \A i \in OutIdx : out[i].kind # "Send"
                /\ \E i \in OwnNacks : /\ out[i].kind = "ControllerShortcut"
                                        /\ out[i].pkt.hop_index = 0
                                        /\ OwnNacks = {i}
          /\ (P.hop_index > 0 /\ PrevHop \in DOMAIN packet_senders /\ ~packet_senders[PrevHop]) =>
                /\ \A i \in OutIdx : out[i].kind # "Send"
                /\ \E i \in OwnNacks : /\ out[i].kind = "ControllerShortcut"
                                        /\ out[i].pkt.hop_index = 1
                                        /\ OwnNacks = {i}

C11_Witness ==
    /\ FragmentForward /\ ~Connected(NextHop)
    /\ P.hop_index > 0 /\ Connected(PrevHop) /\ PrevHop # NextHop
    /\ \E i \in SendsOf("Nack") :
          /\ out[i].to = PrevHop
          /\ out[i].pkt.nack_type = ErrorInRouting(Self)
          /\ out[i].pkt.hops = Reverse(SubSeq(P.hops, 1, P.hop_index + 1))

-----------------------------------------------------------------------------
\* The step is an iteration of the run loop that takes a command off the
\* command channel.
CommandStep == cmdQ # << >> /\ cmdQ' = Tail(cmdQ)

\* The neighbour table is the same after the step but for the entry of id.
SameBut(id) ==
    \A n \in (DOMAIN packet_senders \cup DOMAIN packet_senders') \ {id} :
        /\ n \in DOMAIN packet_senders /\ n \in DOMAIN packet_senders'
        /\ packet_senders'[n] = packet_senders[n]

(* C12: every command changes one piece of state and nothing else.          *)
(* AddSender(id, s) leaves id mapped to s, present before or not.           *)
(* RemoveSender(id) leaves id absent and changes nothing when it was.       *)
(* SetPacketDropRate(p) stores p as it is.  Crash sets the crash flag.  No  *)
(* command changes the dedup set or makes the node emit anything.           *)
C12_CommandEffects ==
    [][CommandStep =>
        LET c == Head(cmdQ)
        IN /\ received_floods' = received_floods
           /\ out' = << >>
           /\ c.cmd = "AddSender" =>
                 /\ c.id \in DOMAIN packet_senders' /\ packet_senders'[c.id] = c.conn
                 /\ SameBut(c.id)
                 /\ UNCHANGED << is_crashed, packet_drop_rate >>
           /\ c.cmd = "RemoveSender" =>
                 /\ c.id \notin DOMAIN packet_senders'
                 /\ SameBut(c.id)
                 /\ c.id \notin DOMAIN packet_senders => packet_senders' = packet_senders
                 /\ UNCHANGED << is_crashed, packet_drop_rate >>
           /\ c.cmd = "SetPacketDropRate" =>
                 /\ packet_drop_rate' = c.pdr
                 /\ UNCHANGED << packet_senders, is_crashed >>
           /\ c.cmd = "Crash" =>
                 /\ is_crashed'
                 /\ UNCHANGED << packet_senders, packet_drop_rate >>]_vars

C12_Witness ==
    /\ last.kind = "command" /\ last.cmd.cmd = "SetPacketDropRate"
    /\ last.cmd.pdr > 100 /\ packet_drop_rate = last.cmd.pdr

-----------------------------------------------------------------------------
(* C13: a fragment that has reached this node as the last hop of its path,  *)
(* coming from a previous hop, is answered with a NACK DestinationIsDrone   *)
(* over the reverse of the whole path, placed on the channel of the         *)
(* previous hop.  The scenario of the specification is the instance with    *)
(* the neighbour table {2} and a path of two hops whose first hop is not 2. *)
(* Every channel of the node is taken to be connected, as there.            *)
C13_DestinationIsDrone ==
    (/\ HandledFragment /\ AtSelf /\ ~HasNext
     /\ P.hop_index > 0 /\ PrevHop # Self
     /\ \A n \in DOMAIN packet_senders : packet_senders[n]) =>
        \E i \in SendsOf("Nack") :
            /\ out[i].to = PrevHop
            /\ out[i].pkt.nack_type = DestinationIsDrone
            /\ out[i].pkt.hops = Reverse(P.hops)

-----------------------------------------------------------------------------
(* C14: no packet and no command brings the run loop to a fatal end:        *)
(* whatever the hop index and the hop sequence of a packet, handling it     *)
(* completes and the thread of the node never panics.                       *)
C14_NoFatalState == pc # "panicked"

-----------------------------------------------------------------------------
\* The neighbour a flood request came from, as the request itself tells it.
CameFrom ==
    IF P.path_trace = << >> THEN P.initiator_id
    ELSE P.path_trace[Len(P.path_trace)][1]

\* The flood request just handled took the broadcast branch.
Broadcast ==
    Handled("FloodRequest") /\ ~last.seen /\ Cardinality(DOMAIN packet_senders) # 1

(* C15: a broadcast records the key, and sends the request, its path trace  *)
(* extended with (self, Drone) once, exactly once to every neighbour but    *)
(* the one it came from (the last entry of the received trace, the          *)
(* initiator when the trace is empty) and to no one else.  Each send that   *)
(* succeeds is followed by one PacketSent event for that copy; a send that  *)
(* fails leaves nothing (no NACK, no event) and the other sends still       *)
(* happen.                                                                  *)
C15_Broadcast ==
    Broadcast =>
        /\ flood_key(P) \in received_floods
        /\ \A n \in Nodes :
              Cardinality({i \in OutIdx : out[i].kind = "Send" /\ out[i].to = n})
                  = IF Connected(n) /\ n # CameFrom THEN 1 ELSE 0
        /\ \A i \in OutIdx :
              /\ out[i].pkt = [P EXCEPT !.path_trace = Append(@, <<Self, "Drone">>)]
              /\ out[i].kind \in {"Send", "PacketSent"}
              /\ out[i].kind = "Send" => (i + 1 \in OutIdx /\ out[i + 1].kind = "PacketSent")
              /\ out[i].kind = "PacketSent" => (i - 1 \in OutIdx /\ out[i - 1].kind = "Send")

C15_Witness ==
    /\ Broadcast
    /\ \E n \in DOMAIN packet_senders : ~packet_senders[n] /\ n # CameFrom
    /\ Len(out) = 2 /\ out[1].kind = "Send" /\ out[2].kind = "PacketSent"

-----------------------------------------------------------------------------
\* The step is an iteration of the run loop that takes a packet off the
\* packet channel.
PacketStep == pktQ # << >> /\ pktQ' = Tail(pktQ)

\* What route validation is to return for the packet just handled.
Verdict ==
    IF ~AtSelf THEN UnexpectedRecipient(Self)
    ELSE IF ~HasNext THEN DestinationIsDrone
    ELSE IF NextHop \notin DOMAIN packet_senders THEN ErrorInRouting(NextHop)
    ELSE ValidOk

\* Route validation gave the verdict, and what the node emitted is built from
\* the header as it was received.
Validated ==
    (last.kind = "packet" /\ P.pack_type # "FloodRequest" /\ ValidIndex) =>
        /\ validate_packet(P) = Verdict
        /\ (HandledFragment /\ AtSelf /\ Verdict # ValidOk) =>
              out = NackBack(Verdict)
        /\ (HandledPassthrough /\ Verdict # ValidOk) =>
              out = << Out("ControllerShortcut", 0, P) >>
        /\ (HandledPassthrough /\ Verdict = ValidOk /\ Connected(NextHop)) => out = Forwarded

(* C16: for a packet with a valid hop index, route validation returns       *)
(* UnexpectedRecipient(self) when the current hop is not this node,         *)
(* otherwise DestinationIsDrone when no hop follows, otherwise              *)
(* ErrorInRouting(n) when the next hop n is not in the neighbour table,     *)
(* otherwise Ok; the header the handler goes on with is the one received,   *)
(* and handling a routed packet changes no state of the node.               *)
C16_Validation ==
    [][PacketStep =>
          /\ Validated'
          /\ UNCHANGED << packet_senders, packet_drop_rate, is_crashed >>
          /\ Head(pktQ).pack_type # "FloodRequest" => UNCHANGED received_floods]_vars

C16_Witness ==
    /\ HandledFragment /\ AtSelf /\ HasNext /\ NextHop \notin DOMAIN packet_senders
    /\ P.hop_index > 0 /\ Connected(PrevHop)
    /\ \E i \in SendsOf("Nack") :
          out[i].to = PrevHop /\ out[i].pkt.nack_type = ErrorInRouting(NextHop)

-----------------------------------------------------------------------------
\* The outputs that place a routed packet (not a flood request) on a channel.
RoutedSends == {i \in OutIdx : out[i].kind = "Send" /\ out[i].pkt.pack_type # "FloodRequest"}

(* C17: a routed packet the node places on the channel of a neighbour n has *)
(* a valid hop index and n is the hop at that index; when it is the inbound *)
(* packet that is forwarded, its hops are those received and its hop index  *)
(* is the received one plus one.                                            *)
C17_HopIndex ==
    last.kind = "packet" =>
        \A i \in RoutedSends :
            /\ out[i].pkt.hop_index < Len(out[i].pkt.hops)
            /\ out[i].pkt.hops[out[i].pkt.hop_index + 1] = out[i].to
            /\ out[i].pkt.pack_type = P.pack_type =>
                  /\ out[i].pkt.hops = P.hops
                  /\ out[i].pkt.hop_index = P.hop_index + 1
                  /\ out[i].pkt = Advanced

C17_Witness ==
    /\ HandledFragment /\ RouteOk /\ out = Forwarded
    /\ P.hop_index > 0 /\ NextHop # PrevHop

-----------------------------------------------------------------------------
(* C18: the dedup set holds exactly the keys the node has broadcast.  It    *)
(* never loses a key; a step adds a key only by handling a flood request    *)
(* for a key not yet in the set with a neighbour table that does not hold   *)
(* exactly one entry, and that step performs the broadcast; a flood request *)
(* answered, with one neighbour or for a recorded key, leaves the set as it *)
(* was and sends no copy, so that the same key delivered again once the     *)
(* table holds a second neighbour is broadcast.                             *)
C18_DedupSet ==
    [][/\ received_floods \subseteq received_floods'
       /\ (PacketStep /\ Head(pktQ).pack_type = "FloodRequest") =>
             IF /\ flood_key(Head(pktQ)) \notin received_floods
                /\ Cardinality(DOMAIN packet_senders) # 1
             THEN /\ received_floods' = received_floods \cup {flood_key(Head(pktQ))}
                  /\ BroadcastDone'
             ELSE /\ received_floods' = received_floods
                  /\ SendsOf("FloodRequest")' = {}
                  /\ AnsweredOnly'
       /\ ~(PacketStep /\ Head(pktQ).pack_type = "FloodRequest") =>
             received_floods' = received_floods]_vars

C18_Witness ==
    /\ Handled("FloodRequest") /\ Cardinality(DOMAIN packet_senders) = 1
    /\ received_floods # {} /\ flood_key(P) \notin received_floods
    /\ \E i \in SendsOf("FloodResponse") : out[i].to = CameFrom

-----------------------------------------------------------------------------
\* While a neighbour is not in the table nothing is placed on its channel, and
\* a fragment bound for it is answered: some output carries the NACK
\* ErrorInRouting of that neighbour.
AbsentUnused ==
    last.kind = "packet" =>
        /\ \A i \in OutIdx : out[i].kind = "Send" => out[i].to \in DOMAIN packet_senders
        /\ (/\ HandledFragment /\ AtSelf /\ HasNext
            /\ NextHop \in Others \ DOMAIN packet_senders
            /\ P.hop_index > 0 => PrevHop \in Others) =>
              \E i \in OutIdx : /\ out[i].pkt.pack_type = "Nack"
                                 /\ out[i].pkt.nack_type = ErrorInRouting(NextHop)

(* C19: RemoveSender(id) leaves id out of the neighbour table; id comes     *)
(* back only by an AddSender(id, _); and as long as id is out of the table, *)
(* whatever commands and packets are handled, no packet of any kind is      *)
(* placed on the channel of id and a fragment at this node whose next hop   *)
(* is id is answered with the NACK ErrorInRouting(id).                      *)
C19_RemovedSender ==
    [][/\ (CommandStep /\ Head(cmdQ).cmd = "RemoveSender") =>
             Head(cmdQ).id \notin DOMAIN packet_senders'
       /\ \A id \in DOMAIN packet_senders' \ DOMAIN packet_senders :
             CommandStep /\ Head(cmdQ).cmd = "AddSender" /\ Head(cmdQ).id = id
       /\ PacketStep => AbsentUnused']_vars

-----------------------------------------------------------------------------
(* C20: the command channel does not starve packet handling.  Whenever the  *)
(* node is running, no command is pending and a packet waits, connected     *)
(* command channel or not, the node eventually handles a packet, unless a   *)
(* new command arrives first or the loop ends; and a crashed node with no   *)
(* command pending whose packet channel is closed and empty eventually      *)
(* returns from the loop.                                                   *)
C20_NotStarved ==
    /\ (pc = "running" /\ cmdQ = << >> /\ pktQ # << >>)
          ~> (last.kind = "packet" \/ cmdQ # << >> \/ pc # "running")
    /\ (is_crashed /\ cmdQ = << >> /\ pktQ = << >> /\ ~pkt_connected)
          ~> (pc = "finished" \/ cmdQ # << >>)

====
